---- MODULE Spec2Model ----
(***************************************************************************)
(* Campaign CRUD service (src/main.py): one SQLite table of campaigns, a   *)
(* startup hook that creates the table and seeds it when empty, and five   *)
(* HTTP endpoints, each run with its own database session.                 *)
(*                                                                         *)
(* Optional values (Python's `X | None`) are sequences of length at most   *)
(* one: None is <<>> and a present value v is <<v>>.  Timestamps are       *)
(* natural numbers read off the clock `now`.                               *)
(***************************************************************************)
EXTENDS Integers, Sequences, FiniteSets, TLC

\* ------------------------------------------------------------------ bounds
MaxClock == 2       \* inserts stop when the clock reaches this value

\* ------------------------------------------------------------- value space
None == <<>>
Some(v) == <<v>>

Requests == {"r1", "r2"}            \* request slots of the server
NameValues == {"", "n1"}            \* strings a client sends as name
DateValues == {10}                  \* timestamps a client sends as due_date
\* Integers a client sends as {id}: a seeding takes two keys and one tick of
\* the clock, a create one of each, so no key exceeds MaxClock + 1.
PathIds == 1..(MaxClock + 1)

\* A JSON body: `fields` are the keys present; a key that is present holds
\* null (None) or a value, a key that is absent holds nothing.
Payloads ==
    { [fields |-> f, name |-> n, due_date |-> d] :
        f \in SUBSET {"name", "due_date"},
        n \in {None} \cup {Some(v) : v \in NameValues},
        d \in {None} \cup {Some(v) : v \in DateValues} }

JsonBodies ==
    { p \in Payloads :
        /\ ("name" \notin p.fields => p.name = None)
        /\ ("due_date" \notin p.fields => p.due_date = None) }

NoPayload == [fields |-> {}, name |-> None, due_date |-> None]
NoRequest == [op |-> "none", id |-> 0, payload |-> NoPayload]
NoResponse == [status |-> 0, detail |-> "", data |-> <<>>, message |-> ""]

VARIABLES
    tableExists,        \* the campaign table has been created in database.db
    db,                 \* the rows of the campaign table
    now,                \* the clock
    app,                \* "down" or "up": the process and its lifespan
    sessions,           \* the Session objects currently open on the engine
    pc,                 \* per request slot: "idle", "open", "handled"
    sess,               \* per request slot: the session injected into it
    req,                \* per request slot: the request the handler ran
    resp,               \* per request slot: the response the handler gave
    lastHandled,        \* the slot whose handler ran most recently
    deletedSinceCreate, \* ids deleted with no successful create since
    deletedSinceInsert, \* ids deleted with no create and no seeding since
    pristine            \* created rows not updated or deleted since

vars == <<tableExists, db, now, app, sessions, pc, sess, req, resp,
          lastHandled, deletedSinceCreate, deletedSinceInsert, pristine>>

\* ----------------------------------------------------------------- storage
Ids(table) == {c.campaign_id : c \in table}

Max(S) == CHOOSE m \in S : \A x \in S : x <= m

\* INTEGER PRIMARY KEY of SQLite: one more than the largest key in use.
NextRowId(table) == IF table = {} THEN 1 ELSE Max(Ids(table)) + 1

\* session.get(Campaign, id): the rows with that primary key.
session_get(table, id) == {c \in table : c.campaign_id = id}

RECURSIVE select_all(_)
\* session.exec(select(Campaign)).all(): the rows in primary-key order.
select_all(table) ==
    IF table = {} THEN <<>>
    ELSE LET first == CHOOSE c \in table :
                          \A d \in table : c.campaign_id <= d.campaign_id
         IN <<first>> \o select_all(table \ {first})

\* ---------------------------------------------------------- request models
\* CampaignCreate: name is a required str, due_date defaults to None.
CreateValid(p) == "name" \in p.fields /\ p.name # None

ParseCreate(p) ==
    [name |-> p.name[1],
     due_date |-> IF "due_date" \in p.fields THEN p.due_date ELSE None]

\* CampaignUpdate: both fields default to None.
ParseUpdate(p) ==
    [name |-> IF "name" \in p.fields THEN p.name ELSE None,
     due_date |-> IF "due_date" \in p.fields THEN p.due_date ELSE None]

\* ---------------------------------------------------------------- responses
Ok(rows) == [status |-> 200, detail |-> "", data |-> rows, message |-> ""]

\* Variant: the missing row is reported as a bad request.
not_found_as_bad_request ==
    [status |-> 400, detail |-> "Campaign not found", data |-> <<>>,
     message |-> ""]

not_found ==
    [status |-> 404, detail |-> "Campaign not found", data |-> <<>>,
     message |-> ""]

unprocessable ==
    [status |-> 422, detail |-> "validation error", data |-> <<>>,
     message |-> ""]

deleted_ok ==
    [status |-> 200, detail |-> "", data |-> <<>>,
     message |-> "Campaign deleted successfully"]

\* ------------------------------------------------------------ row building
\* The two rows the lifespan hook adds, in order, at clock t.
seed_rows(first, t) ==
    { [campaign_id |-> first, name |-> "Campaign tesla",
       due_date |-> Some(t), created_at |-> t],
      [campaign_id |-> first + 1, name |-> "Campaign apple",
       due_date |-> Some(t), created_at |-> t] }

\* Variant: the hook seeds on every start.
should_seed_always(table) == TRUE

\* `if not session.exec(select(Campaign)).first()`
should_seed(table) == table = {}

\* Variant: the due date of the body is not passed on.
new_campaign_without_due_date(body, id, t) ==
    [campaign_id |-> id, name |-> body.name, due_date |-> None,
     created_at |-> t]

\* Campaign(name=body.name, due_date=body.due_date, created_at=now), with the
\* primary key the insert assigns.
new_campaign(body, id, t) ==
    [campaign_id |-> id, name |-> body.name, due_date |-> body.due_date,
     created_at |-> t]

\* Variant: due_date is assigned without the `is not None` test.
apply_update_assigning_due_date(campaign, body) ==
    [campaign EXCEPT
        !.name = IF body.name # None THEN body.name[1] ELSE @,
        !.due_date = body.due_date]

\* Variant: a given due date is also written to created_at.
apply_update_touching_created_at(campaign, body) ==
    [campaign EXCEPT
        !.name = IF body.name # None THEN body.name[1] ELSE @,
        !.due_date = IF body.due_date # None THEN body.due_date ELSE @,
        !.created_at = IF body.due_date # None THEN body.due_date[1] ELSE @]

\* Variant: the name of the body is never assigned.
apply_update_ignoring_name(campaign, body) ==
    [campaign EXCEPT
        !.due_date = IF body.due_date # None THEN body.due_date ELSE @]

\* The two `is not None` assignments of update_campaign.
apply_update(campaign, body) ==
    [campaign EXCEPT
        !.name = IF body.name # None THEN body.name[1] ELSE @,
        !.due_date = IF body.due_date # None THEN body.due_date ELSE @]

\* Variant: the delete is never committed.
delete_row_uncommitted(table, campaign) == table

\* session.delete(campaign); session.commit()
delete_row(table, campaign) == table \ {campaign}

\* ----------------------------------------------------------------- sessions
\* Session(engine): a new object, distinct from every open one.
new_session(open) == CHOOSE s \in 1..(Cardinality(open) + 1) : s \notin open

\* Variant: the session is closed only after a successful response.
releases_on_success(response) == response.status = 200

\* `with Session(engine) as session: yield session` closes the session when
\* the request ends, whatever the handler's outcome was.
releases(response) == TRUE

\* ------------------------------------------------------------------- Init
Init ==
    /\ tableExists = FALSE
    /\ db = {}
    /\ now = 0
    /\ app = "down"
    /\ sessions = {}
    /\ pc = [r \in Requests |-> "idle"]
    /\ sess = [r \in Requests |-> None]
    /\ req = [r \in Requests |-> NoRequest]
    /\ resp = [r \in Requests |-> NoResponse]
    /\ lastHandled = None
    /\ deletedSinceCreate = {}
    /\ deletedSinceInsert = {}
    /\ pristine = {}

\* ---------------------------------------------------------------- lifespan
\* lifespan, up to its yield: create the table, seed it when it is empty.
Startup ==
    /\ app = "down"
    /\ app' = "up"
    /\ tableExists' = TRUE
    /\ IF should_seed(db)
         THEN /\ now < MaxClock
              /\ db' = db \cup seed_rows(NextRowId(db), now)
              /\ now' = now + 1
              /\ deletedSinceInsert' = {}
         ELSE UNCHANGED <<db, now, deletedSinceInsert>>
    /\ UNCHANGED <<sessions, pc, sess, req, resp, lastHandled,
                   deletedSinceCreate, pristine>>

\* The process stops once no request is in flight.
Shutdown ==
    /\ app = "up"
    /\ \A r \in Requests : pc[r] = "idle"
    /\ app' = "down"
    /\ UNCHANGED <<tableExists, db, now, sessions, pc, sess, req, resp,
                   lastHandled, deletedSinceCreate, deletedSinceInsert,
                   pristine>>

\* ------------------------------------------------------------- get_session
\* A request arrives: get_session opens its session and yields it.
get_session_enter(r) ==
    /\ app = "up"
    /\ pc[r] = "idle"
    /\ LET s == new_session(sessions)
       IN /\ sessions' = sessions \cup {s}
          /\ sess' = [sess EXCEPT ![r] = Some(s)]
    /\ pc' = [pc EXCEPT ![r] = "open"]
    /\ UNCHANGED <<tableExists, db, now, app, req, resp, lastHandled,
                   deletedSinceCreate, deletedSinceInsert, pristine>>

\* The request ends: the `with` block of get_session is left.
get_session_exit(r) ==
    /\ pc[r] = "handled"
    /\ sessions' = IF releases(resp[r]) THEN sessions \ {sess[r][1]}
                   ELSE sessions
    /\ sess' = [sess EXCEPT ![r] = None]
    /\ pc' = [pc EXCEPT ![r] = "idle"]
    /\ req' = [req EXCEPT ![r] = NoRequest]
    /\ resp' = [resp EXCEPT ![r] = NoResponse]
    /\ UNCHANGED <<tableExists, db, now, app, lastHandled,
                   deletedSinceCreate, deletedSinceInsert, pristine>>

\* ---------------------------------------------------------------- handlers
\* What every handler leaves behind in its slot.
Handled(r, request, response) ==
    /\ pc[r] = "open"
    /\ pc' = [pc EXCEPT ![r] = "handled"]
    /\ req' = [req EXCEPT ![r] = request]
    /\ resp' = [resp EXCEPT ![r] = response]
    /\ lastHandled' = Some(r)
    /\ UNCHANGED <<tableExists, app, sessions, sess>>

\* GET /campaigns
read_campaigns(r) ==
    /\ Handled(r, [op |-> "list", id |-> 0, payload |-> NoPayload],
               Ok(select_all(db)))
    /\ UNCHANGED <<db, now, deletedSinceCreate, deletedSinceInsert, pristine>>

\* GET /campaigns/{id}
read_campaign(r, id) ==
    LET found == session_get(db, id)
        request == [op |-> "get", id |-> id, payload |-> NoPayload]
    IN /\ IF found = {}
            THEN Handled(r, request, not_found)
            ELSE Handled(r, request, Ok(<<CHOOSE c \in found : TRUE>>))
       /\ UNCHANGED <<db, now, deletedSinceCreate, deletedSinceInsert,
                      pristine>>

\* POST /campaigns
create_campaign(r, payload) ==
    LET request == [op |-> "create", id |-> 0, payload |-> payload]
    IN IF ~CreateValid(payload)
         THEN /\ Handled(r, request, unprocessable)
              /\ UNCHANGED <<db, now, deletedSinceCreate, deletedSinceInsert,
                             pristine>>
         ELSE LET body == ParseCreate(payload)
                  id == NextRowId(db)
                  row == new_campaign(body, id, now)
              IN /\ now < MaxClock
                 /\ db' = db \cup {row}
                 /\ now' = now + 1
                 /\ Handled(r, request, Ok(<<row>>))
                 /\ deletedSinceCreate' = {}
                 /\ deletedSinceInsert' = {}
                 /\ pristine' = pristine \cup
                        {[id |-> row.campaign_id, name |-> payload.name[1],
                          due_date |-> payload.due_date]}

\* PUT /campaigns/{id}
update_campaign(r, id, payload) ==
    LET found == session_get(db, id)
        request == [op |-> "update", id |-> id, payload |-> payload]
    IN IF found = {}
         THEN /\ Handled(r, request, not_found)
              /\ UNCHANGED <<db, now, deletedSinceCreate, deletedSinceInsert,
                             pristine>>
         ELSE LET campaign == CHOOSE c \in found : TRUE
                  updated == apply_update(campaign, ParseUpdate(payload))
              IN /\ db' = (db \ {campaign}) \cup {updated}
                 /\ Handled(r, request, Ok(<<updated>>))
                 /\ pristine' = {p \in pristine : p.id # id}
                 /\ UNCHANGED <<now, deletedSinceCreate, deletedSinceInsert>>

\* DELETE /campaigns/{id}
delete_campaign(r, id) ==
    LET found == session_get(db, id)
        request == [op |-> "delete", id |-> id, payload |-> NoPayload]
    IN IF found = {}
         THEN /\ Handled(r, request, not_found)
              /\ UNCHANGED <<db, now, deletedSinceCreate, deletedSinceInsert,
                             pristine>>
         ELSE LET campaign == CHOOSE c \in found : TRUE
              IN /\ db' = delete_row(db, campaign)
                 /\ Handled(r, request, deleted_ok)
                 /\ deletedSinceCreate' = deletedSinceCreate \cup {id}
                 /\ deletedSinceInsert' = deletedSinceInsert \cup {id}
                 /\ pristine' = {p \in pristine : p.id # id}
                 /\ UNCHANGED now

\* ------------------------------------------------------------ specifications
\* Bodies that set exactly one field to a value; two clients racing on
\* due_date need two due dates to tell their writes apart.
RaceDates == DateValues \cup {11}

OneFieldBodies ==
    { [fields |-> {"name"}, name |-> Some(v), due_date |-> None] :
        v \in NameValues }
    \cup
    { [fields |-> {"due_date"}, name |-> None, due_date |-> Some(v)] :
        v \in RaceDates }

\* The steps of one request slot, for given path ids and JSON bodies.
Serve(r, ids, bodies) ==
    \/ get_session_enter(r)
    \/ read_campaigns(r)
    \/ \E id \in ids : read_campaign(r, id)
    \/ \E p \in bodies : create_campaign(r, p)
    \/ \E id \in ids, p \in bodies : update_campaign(r, id, p)
    \/ \E id \in ids : delete_campaign(r, id)
    \/ get_session_exit(r)

\* One client: requests arrive one after the other, with any id and body.
Next ==
    \/ Startup
    \/ Shutdown
    \/ Serve("r1", PathIds, JsonBodies)

Spec == Init /\ [][Next]_vars

\* Two clients working on campaign 1: two requests may be in flight
\* together.  A handler is an `async def` that never awaits, so it runs
\* from its first line to its return in one step of the event loop.
NextConc ==
    \/ Startup
    \/ Shutdown
    \/ \E r \in Requests : Serve(r, {1}, OneFieldBodies)

SpecConc == Init /\ [][NextConc]_vars

\* ------------------------------------------------------------------ claims
\* The handler of slot r runs in this step; req'[r] and resp'[r] are then the
\* request it served and the response it gave.
Runs(r) == pc[r] = "open" /\ pc'[r] = "handled"

Row(table, id) == CHOOSE c \in table : c.campaign_id = id

InFlight(r) == pc[r] \in {"open", "handled"}

\* C1: get-one, update (any payload) and delete of an id that no stored
\* campaign has answer 404 'Campaign not found' and leave the table as it was.
C1_MissingIdNotFound ==
    [][\A r \in Requests :
          (/\ Runs(r)
           /\ req'[r].op \in {"get", "update", "delete"}
           /\ req'[r].id \notin Ids(db))
          => /\ resp'[r].status = 404
             /\ resp'[r].detail = "Campaign not found"
             /\ db' = db]_vars

\* C1 witness: an update carrying a name, of an id that was deleted before,
\* has been answered 404.
C1_Witness ==
    \E r \in Requests :
        /\ pc[r] = "handled"
        /\ req[r].op = "update"
        /\ req[r].payload.name # None
        /\ req[r].id \in deletedSinceInsert
        /\ resp[r].status = 404

\* C2 (as claimed): once the database has been started a first time, no later
\* startup inserts rows.
C2_SeedNeverReinserted ==
    [][(tableExists /\ app = "down" /\ app' = "up") => db' = db]_vars

\* C2 (amended): the first startup finds no table and leaves exactly the two
\* rows "Campaign tesla" and "Campaign apple"; every startup inserts exactly
\* those two rows when the table is empty and nothing when it holds a row.
C2_SeedExactlyWhenEmpty ==
    [][/\ (~tableExists => db = {})
       /\ (app = "down" /\ app' = "up") =>
             IF db = {}
               THEN /\ Cardinality(db') = 2
                    /\ {c.name : c \in db'} =
                          {"Campaign tesla", "Campaign apple"}
               ELSE db' = db]_vars

\* C2 witness: the seed rows of a second seeding are stored.
C2_Witness ==
    /\ app = "up"
    /\ \E c \in db : c.name = "Campaign tesla" /\ c.created_at > 0
    /\ \E c \in db : c.name = "Campaign apple" /\ c.created_at > 0

\* C3: on an existing campaign, an update carrying only a name sets the name
\* and keeps due_date, an update carrying only a due_date sets due_date and
\* keeps the name, and every other row stays as it was.
C3_PartialUpdateFrame ==
    [][\A r \in Requests :
          (/\ Runs(r)
           /\ req'[r].op = "update"
           /\ req'[r].id \in Ids(db))
          => LET p == req'[r].payload
                 old == Row(db, req'[r].id)
             IN /\ (p.fields = {"name"} /\ p.name # None) =>
                      /\ req'[r].id \in Ids(db')
                      /\ Row(db', req'[r].id).name = p.name[1]
                      /\ Row(db', req'[r].id).due_date = old.due_date
                      /\ db' \ {Row(db', req'[r].id)} = db \ {old}
                /\ (p.fields = {"due_date"} /\ p.due_date # None) =>
                      /\ req'[r].id \in Ids(db')
                      /\ Row(db', req'[r].id).due_date = p.due_date
                      /\ Row(db', req'[r].id).name = old.name
                      /\ db' \ {Row(db', req'[r].id)} = db \ {old}]_vars

\* C3 witness: an update carrying only the name "n1" succeeded on a campaign
\* that kept its due date, next to another stored campaign.
C3_Witness ==
    \E r \in Requests :
        /\ pc[r] = "handled"
        /\ req[r].op = "update"
        /\ req[r].payload.fields = {"name"}
        /\ req[r].payload.name = Some("n1")
        /\ resp[r].status = 200
        /\ resp[r].data[1].due_date # None
        /\ Cardinality(db) > 1

\* C4 (as claimed): every stored campaign has a non-empty name.
C4_NamesNonEmpty == \A c \in db : c.name # ""

\* C5: a stored campaign stays stored, with its id and its created_at, through
\* every step that is not the successful delete of it, and no two stored
\* campaigns share an id.
C5_IdAndCreatedAtStable ==
    [][/\ \A c \in db :
            \/ \E r \in Requests :
                   /\ Runs(r)
                   /\ req'[r].op = "delete"
                   /\ req'[r].id = c.campaign_id
                   /\ resp'[r].status = 200
            \/ \E d \in db' :
                   /\ d.campaign_id = c.campaign_id
                   /\ d.created_at = c.created_at
       /\ \A c \in db, d \in db : c.campaign_id = d.campaign_id => c = d
       /\ \A c \in db', d \in db' : c.campaign_id = d.campaign_id => c = d]_vars

\* C5 witness: a created campaign (created_at 1) has been given a due date by
\* a successful update and still shows its created_at.
C5_Witness ==
    \E r \in Requests :
        /\ pc[r] = "handled"
        /\ req[r].op = "update"
        /\ req[r].payload.due_date # None
        /\ resp[r].status = 200
        /\ resp[r].data[1].created_at = 1
        /\ resp[r].data[1].name \in NameValues
        /\ resp[r].data[1] \in db

\* C6 (as claimed): an id deleted with no create since is the id of no stored
\* campaign.
C6_DeletedGoneUntilCreate == deletedSinceCreate \cap Ids(db) = {}

\* C6 (amended): an id deleted with no create and no seeding startup since is
\* the id of no stored campaign; list shows no campaign with it, and get-one
\* and delete of it answer 404.
C6_DeletedGoneUntilInsert ==
    [][/\ deletedSinceInsert \cap Ids(db) = {}
       /\ \A r \in Requests :
             Runs(r) =>
                /\ req'[r].op = "list" =>
                      \A k \in 1..Len(resp'[r].data) :
                          resp'[r].data[k].campaign_id \notin deletedSinceInsert
                /\ (req'[r].op \in {"get", "delete"}
                    /\ req'[r].id \in deletedSinceInsert) =>
                      resp'[r].status = 404]_vars

\* C6 witness: a second delete of a deleted id has been answered 404.
C6_Witness ==
    \E r \in Requests :
        /\ pc[r] = "handled"
        /\ req[r].op = "delete"
        /\ req[r].id \in deletedSinceInsert
        /\ resp[r].status = 404

\* C7: create answers with a campaign whose id no stored campaign had, and a
\* get-one of a created id, with no update or delete of it in between,
\* answers with that id and the name and due_date of the create payload (no
\* due_date when the payload had none).
C7_CreateThenGet ==
    [][\A r \in Requests :
          Runs(r) =>
             /\ (req'[r].op = "create" /\ resp'[r].status = 200) =>
                   /\ Len(resp'[r].data) = 1
                   /\ resp'[r].data[1].campaign_id \notin Ids(db)
                   /\ resp'[r].data[1] \in db'
                   /\ resp'[r].data[1].name = req'[r].payload.name[1]
                   /\ resp'[r].data[1].due_date = req'[r].payload.due_date
             /\ req'[r].op = "get" =>
                   \A p \in pristine :
                       p.id = req'[r].id =>
                          /\ resp'[r].status = 200
                          /\ resp'[r].data[1].campaign_id = p.id
                          /\ resp'[r].data[1].name = p.name
                          /\ resp'[r].data[1].due_date = p.due_date]_vars

\* C7 witness: a get-one of a campaign created with a due date, untouched
\* since, has been answered with it.
C7_Witness ==
    \E r \in Requests :
        /\ pc[r] = "handled"
        /\ req[r].op = "get"
        /\ resp[r].status = 200
        /\ \E p \in pristine : p.id = req[r].id /\ p.due_date # None

\* C8: on an existing campaign, an update whose payload has due_date null
\* changes the table and answers exactly as the same payload without the
\* due_date key would, and the stored due_date stays as it was.
C8_NullDueDateAsOmitted ==
    [][\A r \in Requests :
          (/\ Runs(r)
           /\ req'[r].op = "update"
           /\ req'[r].id \in Ids(db)
           /\ "due_date" \in req'[r].payload.fields
           /\ req'[r].payload.due_date = None)
          => LET old == Row(db, req'[r].id)
                 omitted == [req'[r].payload EXCEPT
                                !.fields = @ \ {"due_date"}]
                 expected == apply_update(old, ParseUpdate(omitted))
             IN /\ expected.due_date = old.due_date
                /\ db' = (db \ {old}) \cup {expected}
                /\ resp'[r] = Ok(<<expected>>)]_vars

\* C8 witness: an update with due_date null succeeded on a campaign that has
\* a due date.
C8_Witness ==
    \E r \in Requests :
        /\ pc[r] = "handled"
        /\ req[r].op = "update"
        /\ "due_date" \in req[r].payload.fields
        /\ req[r].payload.due_date = None
        /\ resp[r].status = 200
        /\ resp[r].data[1].due_date # None

\* C9: when two updates of the same campaign have both been handled while both
\* requests are in flight, neither was answered with anything but 200 or 404,
\* and when both succeeded and set the same field, the stored value of that
\* field is the one given by the update that was committed last.
C9_LastWriterWins ==
    \A r1 \in Requests, r2 \in Requests :
        (/\ r1 # r2
         /\ pc[r1] = "handled" /\ pc[r2] = "handled"
         /\ req[r1].op = "update" /\ req[r2].op = "update"
         /\ req[r1].id = req[r2].id)
        => /\ resp[r1].status \in {200, 404}
           /\ resp[r2].status \in {200, 404}
           /\ (/\ resp[r1].status = 200 /\ resp[r2].status = 200
               /\ lastHandled = Some(r2))
              => /\ req[r2].id \in Ids(db)
                 /\ (req[r1].payload.name # None /\ req[r2].payload.name # None)
                       => Row(db, req[r2].id).name = req[r2].payload.name[1]
                 /\ (/\ req[r1].payload.due_date # None
                     /\ req[r2].payload.due_date # None)
                       => Row(db, req[r2].id).due_date =
                              req[r2].payload.due_date

\* C9 witness: two successful updates of campaign 1 giving different names are
\* both handled and both still in flight.
C9_Witness ==
    /\ pc["r1"] = "handled" /\ pc["r2"] = "handled"
    /\ req["r1"].op = "update" /\ req["r2"].op = "update"
    /\ req["r1"].id = req["r2"].id
    /\ resp["r1"].status = 200 /\ resp["r2"].status = 200
    /\ req["r1"].payload.name # None /\ req["r2"].payload.name # None
    /\ req["r1"].payload.name # req["r2"].payload.name
    /\ lastHandled = Some("r1")

\* C10: every request in flight holds an open session, no two requests in
\* flight hold the same one, and every open session is held by a request in
\* flight (so none is open once all requests have ended, whatever their
\* responses were).
C10_SessionPerRequest ==
    /\ \A r \in Requests :
          IF InFlight(r)
            THEN sess[r] # None /\ sess[r][1] \in sessions
            ELSE sess[r] = None
    /\ \A r1 \in Requests, r2 \in Requests :
          (r1 # r2 /\ InFlight(r1) /\ InFlight(r2)) => sess[r1] # sess[r2]
    /\ sessions = {sess[r][1] : r \in {q \in Requests : InFlight(q)}}

\* C10 witness: two requests are in flight with two open sessions, and the
\* handler of one of them has raised the 404.
C10_Witness ==
    /\ pc["r1"] = "open"
    /\ pc["r2"] = "handled"
    /\ resp["r2"].status = 404
    /\ sess["r1"] # sess["r2"]
    /\ Cardinality(sessions) = 2

====
